---- MODULE Spec2Model ----
(***************************************************************************)
(* The layer-aware validators of the clean-architecture skill:             *)
(*   validate_imports.py   (ImportValidator, LayerStructureValidator)      *)
(*   validate_structure.py (Naming, Encapsulation, LayerContent, UseCase)  *)
(*                                                                         *)
(* A text is a sequence of words: a word is an indivisible run of          *)
(* characters ("domain", "_", ".", "py"), chosen so that every literal     *)
(* the code searches for ('test', 'use_case', 'entity', ...) is a whole    *)
(* number of words.  Substring search, split, join, lower and replace are  *)
(* computed on these sequences.  A path is a sequence of parts (texts).    *)
(***************************************************************************)
EXTENDS Integers, Sequences, FiniteSets, TLC

VARIABLES
    cmd,                \* which script runs: "imports" or "structure"
    argv,               \* sys.argv[1:]: <<>> or <<root name>>
    existing,           \* the root candidates that exist on disk
    tree,               \* the *.py files under the root, in rglob order
    root_path,          \* <<>> before main resolved it, else <<root name>>
    pc,                 \* position of the running script
    idx,                \* index in the file loop of the running validator
    violations,         \* ImportValidator.violations
    warnings,           \* the "Warning: Could not parse" lines printed
    structure_issues,   \* LayerStructureValidator.issues
    naming_issues,      \* NamingConventionValidator.issues
    encapsulation_issues, \* EncapsulationValidator.issues
    content_issues,     \* LayerContentValidator.issues
    usecase_issues,     \* UseCaseStructureValidator.issues
    printed,            \* number of issue lines each report() printed
    valid,              \* the booleans returned by validate()/report() so far
    exit_code           \* <<>> while running, else <<status>>

vars == <<cmd, argv, existing, tree, root_path, pc, idx, violations, warnings,
          structure_issues, naming_issues, encapsulation_issues,
          content_issues, usecase_issues, printed, valid, exit_code>>

(***************************************************************************)
(* Bounds of the model.                                                    *)
(***************************************************************************)
MaxFiles == 2

(***************************************************************************)
(* Texts.                                                                  *)
(***************************************************************************)
\* str.lower() on one word
LowerWord(w) ==
    CASE w = "Domain" -> "domain"
      [] w = "Infrastructure" -> "infrastructure"
      [] OTHER -> w

\* str.lower()
Lower(s) == [i \in 1..Len(s) |-> LowerWord(s[i])]

\* pat in s
Contains(s, pat) ==
    \E i \in 0..(Len(s) - Len(pat)) : SubSeq(s, i + 1, i + Len(pat)) = pat

\* s.startswith(pat)
StartsWith(s, pat) == Len(s) >= Len(pat) /\ SubSeq(s, 1, Len(pat)) = pat

\* sep.join(parts), sep a text
RECURSIVE Join(_, _)
Join(parts, sep) ==
    IF Len(parts) = 0 THEN <<>>
    ELSE IF Len(parts) = 1 THEN parts[1]
    ELSE parts[1] \o sep \o Join(Tail(parts), sep)

\* s.split(sep): the pieces between the occurrences of the word sep
RECURSIVE Split(_, _)
Split(s, sep) ==
    IF \A i \in 1..Len(s) : s[i] # sep THEN <<s>>
    ELSE LET k == CHOOSE i \in 1..Len(s) :
                      s[i] = sep /\ \A j \in 1..(i - 1) : s[j] # sep
         IN  <<SubSeq(s, 1, k - 1)>> \o Split(SubSeq(s, k + 1, Len(s)), sep)

\* s.replace(pat, rep), pat one word: every occurrence, left to right
Replace(s, pat, rep) ==
    Join(Split(s, pat), rep)

\* the elements of a sequence
Range(s) == {s[i] : i \in 1..Len(s)}

\* the orders in which a Python set holding the elements of S can be iterated
Orders(S) ==
    {o \in [1..Cardinality(S) -> S] : \A x \in S : \E i \in DOMAIN o : o[i] = x}

(***************************************************************************)
(* Paths (pathlib.Path).                                                   *)
(***************************************************************************)
\* Path(name).parts; Path('.') has no parts
RootParts(r) == IF r = <<".">> THEN <<>> ELSE <<r>>

\* the parts of root_path / rel
FullParts(r, f) == RootParts(r) \o f.parts

\* str(file_path)
PathStr(parts) == Join(parts, <<"/">>)

\* file_path.name
Name(f) == f.parts[Len(f.parts)]

\* file_path.stem: the name without its last suffix
Stem(f) ==
    LET n == Name(f)
        dots == {i \in 2..Len(n) : n[i] = "."}
    IN  IF dots = {} THEN n
        ELSE SubSeq(n, 1, (CHOOSE i \in dots : \A j \in dots : j <= i) - 1)

(***************************************************************************)
(* ImportValidator (validate_imports.py).                                  *)
(***************************************************************************)
\* ImportValidator.LAYERS, in the dict's insertion order
LAYERS ==
    << <<(<<"domain">>), 0>>,
       <<(<<"application">>), 1>>,
       <<(<<"infrastructure">>), 2>>,
       <<(<<"framework", "s">>), 3>>,
       <<(<<"framework">>), 3>>,
       <<(<<"adapters">>), 2>>,
       <<(<<"use", "_", "case", "s">>), 1>>,
       <<(<<"entities">>), 0>> >>

\* name in self.LAYERS
InLayers(name) == \E i \in 1..Len(LAYERS) : LAYERS[i][1] = name

\* self.LAYERS[name]
LayerIndex(name) == LAYERS[CHOOSE i \in 1..Len(LAYERS) : LAYERS[i][1] = name][2]

\* the loop shared by _get_layer and _get_import_layer: the index of the
\* first part whose lower-cased text is a key of LAYERS; <<>> is None
RECURSIVE FirstLayer(_)
FirstLayer(parts) ==
    IF Len(parts) = 0 THEN <<>>
    ELSE IF InLayers(Lower(parts[1])) THEN <<LayerIndex(Lower(parts[1]))>>
    ELSE FirstLayer(Tail(parts))

GetLayerDefaultDomain(f) ==
    IF Len(FirstLayer(f.parts)) = 0 THEN <<0>> ELSE FirstLayer(f.parts)

GetLayerLastSegment(f) ==
    FirstLayer([k \in 1..Len(f.parts) |-> f.parts[Len(f.parts) - k + 1]])

\* ImportValidator._get_layer: the parts relative to root_path
GetLayer(f) == FirstLayer(f.parts)

IsProjectImportAnySegment(import_path) ==
    \E i \in 1..Len(Split(import_path, ".")) :
        InLayers(Lower(Split(import_path, ".")[i]))

\* ImportValidator._is_project_import
IsProjectImport(import_path) ==
    InLayers(Lower(Split(import_path, ".")[1]))

\* ImportValidator._get_import_layer
GetImportLayer(import_path) == FirstLayer(Split(import_path, "."))

\* ImportValidator._get_layer_name
GetLayerName(layer_index) ==
    LET primary == {i \in 1..Len(LAYERS) :
                        /\ LAYERS[i][2] = layer_index
                        /\ LAYERS[i][1] \in {<<"domain">>, <<"application">>,
                               <<"infrastructure">>, <<"framework", "s">>}}
    IN  IF primary = {} THEN <<"Layer">>
        ELSE LAYERS[CHOOSE i \in primary : \A j \in primary : i <= j][1]

\* ImportValidator._extract_imports: a set, so duplicates collapse
ExtractImports(f) == Range(f.imports)

IsOutwardOrSame(import_layer, file_layer) == import_layer >= file_layer

\* the dependency test of _check_import
IsOutward(import_layer, file_layer) == import_layer > file_layer

CheckImportUnresolvedOutermost(f, file_layer, import_path) ==
    LET import_layer == IF Len(GetImportLayer(import_path)) = 0 THEN <<3>>
                        ELSE GetImportLayer(import_path)
    IN  IF IsOutward(import_layer[1], file_layer)
        THEN << <<PathStr(f.parts), GetLayerName(file_layer),
                  GetLayerName(import_layer[1])>> >>
        ELSE <<>>

\* ImportValidator._check_import: the violations one import appends
CheckImport(f, file_layer, import_path) ==
    IF ~IsProjectImport(import_path) THEN <<>>
    ELSE LET import_layer == GetImportLayer(import_path)
         IN  IF Len(import_layer) = 0 THEN <<>>
             ELSE IF IsOutward(import_layer[1], file_layer)
             THEN << <<PathStr(f.parts), GetLayerName(file_layer),
                       GetLayerName(import_layer[1])>> >>
             ELSE <<>>

\* the for loop of _validate_file over the imports in iteration order
RECURSIVE CheckImports(_, _, _)
CheckImports(f, file_layer, order) ==
    IF Len(order) = 0 THEN <<>>
    ELSE CheckImport(f, file_layer, order[1])
             \o CheckImports(f, file_layer, Tail(order))

\* the skip test at the top of ImportValidator._validate_file
ImportSkips(r, f) ==
    LET s == PathStr(FullParts(r, f))
    IN  Contains(s, <<"__pycache__">>) \/ Contains(s, <<"test">>)

(***************************************************************************)
(* LayerStructureValidator (validate_imports.py).  The directories are     *)
(* those the files of the tree lie in.                                     *)
(***************************************************************************)
\* the suspicious lists of _check_layer_contents
Suspicious(layer_name) ==
    IF layer_name = <<"domain">>
    THEN {<<"controller", "s">>, <<"router", "s">>, <<"api">>,
          <<"database">>, <<"orm">>}
    ELSE IF layer_name = <<"application">>
    THEN {<<"models">>, <<"database">>, <<"orm">>, <<"api">>,
          <<"controller", "s">>}
    ELSE {}

\* the sub-directories of root_path / layer_name whose name does not start
\* with '__', each once, in directory order
RECURSIVE SubDirs(_, _, _)
SubDirs(files, layer_name, seen) ==
    IF Len(files) = 0 THEN <<>>
    ELSE LET p == files[1].parts
             isSub == /\ Len(p) >= 3
                      /\ p[1] = layer_name
                      /\ ~StartsWith(p[2], <<"__pycache__">>)
                      /\ ~StartsWith(p[2], <<"__">>)
                      /\ p[2] \notin seen
         IN  IF isSub
             THEN <<p[2]>> \o SubDirs(Tail(files), layer_name, seen \cup {p[2]})
             ELSE SubDirs(Tail(files), layer_name, seen)

\* LayerStructureValidator._check_layer_contents
RECURSIVE CheckLayerContents(_, _)
CheckLayerContents(layer_name, subdirs) ==
    IF Len(subdirs) = 0 THEN <<>>
    ELSE (IF Lower(subdirs[1]) \in Suspicious(layer_name)
          THEN << <<layer_name, subdirs[1]>> >> ELSE <<>>)
         \o CheckLayerContents(layer_name, Tail(subdirs))

\* the loop of LayerStructureValidator.validate over the four layer names
\* (a layer directory without sub-directories contributes nothing)
LayerStructureIssues(files) ==
    CheckLayerContents(<<"domain">>, SubDirs(files, <<"domain">>, {}))
    \o CheckLayerContents(<<"application">>,
                          SubDirs(files, <<"application">>, {}))
    \o CheckLayerContents(<<"infrastructure">>,
                          SubDirs(files, <<"infrastructure">>, {}))
    \o CheckLayerContents(<<"framework", "s">>,
                          SubDirs(files, <<"framework", "s">>, {}))

(***************************************************************************)
(* NamingConventionValidator (validate_structure.py).                      *)
(***************************************************************************)
\* the words made of upper-case letters only
UpperWords == {"MAX", "SIZE", "TITLE"}

\* the words made of letters that start with an upper-case letter
CapitalWords == {"Delete", "Task", "UseCase", "Request", "Response",
                 "Protocol", "BaseModel", "Domain", "Infrastructure",
                 "Create", "V2"}
                \cup UpperWords

\* the words made of lower-case letters only
LowerWords == {"domain", "application", "infrastructure", "framework", "s",
               "adapters", "use", "case", "entities", "entity", "utils",
               "test", "task", "delete", "controller", "router", "endpoint",
               "api", "database", "sql", "orm", "http", "request",
               "response", "usecase", "value", "object", "models",
               "title", "run", "init", "dataclass", "property", "repo",
               "web", "os", "path", "myproject", "create", "py", "src",
               "app"}

\* the words made of underscores only
UnderscoreWords == {"_", "__"}

\* re.match(r'^[A-Z][a-zA-Z0-9]*$', name)
IsPascalCase(name) ==
    /\ Len(name) >= 1
    /\ name[1] \in CapitalWords
    /\ \A i \in 1..Len(name) : name[i] \in CapitalWords \cup LowerWords

\* re.match(r'^[a-z_][a-z0-9_]*$', name)
IsSnakeCase(name) ==
    /\ Len(name) >= 1
    /\ \A i \in 1..Len(name) : name[i] \in LowerWords \cup UnderscoreWords

\* re.match(r'^[A-Z][A-Z0-9_]*$', name)
IsUpperSnakeCase(name) ==
    /\ Len(name) >= 1
    /\ name[1] \in UpperWords
    /\ \A i \in 1..Len(name) : name[i] \in UpperWords \cup UnderscoreWords

\* str.isupper(): some cased character, and every cased character upper-case
IsUpper(name) ==
    /\ \E i \in 1..Len(name) : name[i] \in UpperWords
    /\ \A i \in 1..Len(name) : name[i] \in UpperWords \cup UnderscoreWords

\* name.startswith('__') and name.endswith('__')
IsDunder(name) ==
    Len(name) >= 1 /\ name[1] = "__" /\ name[Len(name)] = "__"

\* str(file_path) of a file of the tree
FileStr(r, f) == PathStr(FullParts(r, f))

\* NamingConventionValidator._check_classes
RECURSIVE NamingCheckClasses(_, _)
NamingCheckClasses(path, classes) ==
    IF Len(classes) = 0 THEN <<>>
    ELSE (IF ~IsPascalCase(classes[1].name)
          THEN << <<path, "class", classes[1].name>> >> ELSE <<>>)
         \o NamingCheckClasses(path, Tail(classes))

\* NamingConventionValidator._check_functions
RECURSIVE NamingCheckFunctions(_, _)
NamingCheckFunctions(path, functions) ==
    IF Len(functions) = 0 THEN <<>>
    ELSE (IF ~IsDunder(functions[1]) /\ ~IsSnakeCase(functions[1])
          THEN << <<path, "function", functions[1]>> >> ELSE <<>>)
         \o NamingCheckFunctions(path, Tail(functions))

\* NamingConventionValidator._check_constants
RECURSIVE NamingCheckConstants(_, _)
NamingCheckConstants(path, assigns) ==
    IF Len(assigns) = 0 THEN <<>>
    ELSE (IF /\ IsUpper(assigns[1])
             /\ \E i \in 1..Len(assigns[1]) : assigns[1][i] \in UnderscoreWords
             /\ ~IsUpperSnakeCase(assigns[1])
          THEN << <<path, "constant", assigns[1]>> >> ELSE <<>>)
         \o NamingCheckConstants(path, Tail(assigns))

\* the skip test of NamingConventionValidator.validate_file
NamingSkips(r, f) == Contains(FileStr(r, f), <<"test">>)

\* NamingConventionValidator.validate_file: the issues one file appends
NamingValidate(r, f) ==
    IF NamingSkips(r, f) THEN <<>>
    ELSE IF ~f.parseable THEN <<>>
    ELSE NamingCheckClasses(FileStr(r, f), f.classes)
         \o NamingCheckFunctions(FileStr(r, f), f.functions)
         \o NamingCheckConstants(FileStr(r, f), f.assigns)

(***************************************************************************)
(* EncapsulationValidator (validate_structure.py).                         *)
(***************************************************************************)
\* str.upper() on one word
UpperWord(w) ==
    CASE w = "title" -> "TITLE"
      [] w = "task" -> "TASK"
      [] OTHER -> w

\* str.upper()
Upper(s) == [i \in 1..Len(s) |-> UpperWord(s[i])]

\* EncapsulationValidator._is_protocol_or_dataclass
IsProtocolOrDataclass(c) ==
    \/ \E i \in 1..Len(c.bases) :
           c.bases[i] \in {<<"Protocol">>, <<"BaseModel">>}
    \/ \E i \in 1..Len(c.decorators) : c.decorators[i] = <<"dataclass">>

\* the AnnAssign loop of _check_public_attributes over one class body
RECURSIVE PublicAttributes(_, _, _)
PublicAttributes(path, c, attrs) ==
    IF Len(attrs) = 0 THEN <<>>
    ELSE (IF ~StartsWith(attrs[1], <<"_">>) /\ attrs[1] # Upper(attrs[1])
          THEN << <<path, "public", c.name, attrs[1]>> >> ELSE <<>>)
         \o PublicAttributes(path, c, Tail(attrs))

\* EncapsulationValidator._check_public_attributes
RECURSIVE CheckPublicAttributes(_, _)
CheckPublicAttributes(path, classes) ==
    IF Len(classes) = 0 THEN <<>>
    ELSE (IF IsProtocolOrDataclass(classes[1]) THEN <<>>
          ELSE PublicAttributes(path, classes[1], classes[1].ann_attrs))
         \o CheckPublicAttributes(path, Tail(classes))

\* has_private_attrs of _check_property_usage
HasPrivateAttrs(c) ==
    \E i \in 1..Len(c.init_attrs) : StartsWith(c.init_attrs[i], <<"_">>)

\* has_properties of _check_property_usage
HasProperties(c) == Len(c.properties) > 0

\* file_path.lower() in _check_property_usage: file_path is a pathlib.Path,
\* which has no attribute 'lower', so evaluating it raises AttributeError
PathLowerRaises == TRUE

\* EncapsulationValidator._check_property_usage: the issues appended before
\* the loop ends or raises.  The test is evaluated left to right, so
\* file_path.lower() is reached exactly for a class with private attributes
\* and no property.
RECURSIVE CheckPropertyUsage(_, _)
CheckPropertyUsage(path, classes) ==
    IF Len(classes) = 0 THEN <<>>
    ELSE IF HasPrivateAttrs(classes[1]) /\ ~HasProperties(classes[1])
    THEN IF PathLowerRaises THEN <<>>
         ELSE (IF Contains(Lower(path), <<"entity">>)
               THEN << <<path, "property", classes[1].name>> >> ELSE <<>>)
              \o CheckPropertyUsage(path, Tail(classes))
    ELSE CheckPropertyUsage(path, Tail(classes))

\* the layer test of EncapsulationValidator.validate_file
EncapsulationInScope(r, f) ==
    \/ Contains(FileStr(r, f), <<"domain">>)
    \/ Contains(FileStr(r, f), <<"application">>)

\* the skip test of EncapsulationValidator.validate_file
EncapsulationSkips(r, f) == Contains(FileStr(r, f), <<"test">>)

\* EncapsulationValidator.validate_file: the issues one file appends; an
\* exception raised by either check is swallowed by 'except Exception: pass'
\* and leaves what was appended before it
EncapsulationValidate(r, f) ==
    IF ~EncapsulationInScope(r, f) THEN <<>>
    ELSE IF EncapsulationSkips(r, f) THEN <<>>
    ELSE IF ~f.parseable THEN <<>>
    ELSE CheckPublicAttributes(FileStr(r, f), f.classes)
         \o CheckPropertyUsage(FileStr(r, f), f.classes)

(***************************************************************************)
(* LayerContentValidator (validate_structure.py).                          *)
(***************************************************************************)
\* LayerContentValidator.PATTERNS[layer]['forbidden'], in list order
Forbidden(layer) ==
    IF layer = <<"domain">>
    THEN << <<"controller">>, <<"router">>, <<"endpoint">>, <<"api">>,
            <<"database">>, <<"sql">>, <<"orm">>, <<"http">>,
            <<"request">>, <<"response">> >>
    ELSE IF layer = <<"application">>
    THEN << <<"controller">>, <<"router">>, <<"endpoint">>, <<"sql">>,
            <<"orm">>, <<"http">> >>
    ELSE IF layer = <<"infrastructure">>
    THEN << <<"use", "_", "case">>, <<"usecase">>, <<"entity">>,
            <<"value", "_", "object">> >>
    ELSE <<>>

\* the names LayerContentValidator._get_layer recognises
ContentLayerNames ==
    {<<"domain">>, <<"application">>, <<"infrastructure">>,
     <<"framework", "s">>, <<"framework">>}

\* LayerContentValidator._get_layer: all the parts of the path as given,
\* the root's included; <<>> is None
RECURSIVE ContentFirstLayer(_)
ContentFirstLayer(parts) ==
    IF Len(parts) = 0 THEN <<>>
    ELSE IF Lower(parts[1]) \in ContentLayerNames
    THEN IF Lower(parts[1]) # <<"framework">>
         THEN <<Lower(parts[1])>> ELSE << <<"framework", "s">> >>
    ELSE ContentFirstLayer(Tail(parts))

\* LayerContentValidator._get_layer on a file of the tree
ContentGetLayer(r, f) == ContentFirstLayer(FullParts(r, f))

RECURSIVE ForbiddenFirstMatch(_, _, _, _)
ForbiddenFirstMatch(path, file_name, layer, patterns) ==
    IF Len(patterns) = 0 THEN <<>>
    ELSE IF Contains(file_name, patterns[1])
    THEN << <<path, patterns[1], layer>> >>
    ELSE ForbiddenFirstMatch(path, file_name, layer, Tail(patterns))

\* the loop of LayerContentValidator.validate_file over the forbidden list
RECURSIVE ForbiddenMatches(_, _, _, _)
ForbiddenMatches(path, file_name, layer, patterns) ==
    IF Len(patterns) = 0 THEN <<>>
    ELSE (IF Contains(file_name, patterns[1])
          THEN << <<path, patterns[1], layer>> >> ELSE <<>>)
         \o ForbiddenMatches(path, file_name, layer, Tail(patterns))

\* LayerContentValidator.validate_file: the issues one file appends
ContentValidate(r, f) ==
    LET layer == ContentGetLayer(r, f)
    IN  IF Len(layer) = 0 THEN <<>>
        ELSE ForbiddenMatches(FileStr(r, f), Lower(Stem(f)), layer[1],
                              Forbidden(layer[1]))

(***************************************************************************)
(* UseCaseStructureValidator (validate_structure.py).                      *)
(***************************************************************************)
\* UseCaseStructureValidator._get_class_names: a set of names
GetClassNames(f) == {f.classes[i].name : i \in 1..Len(f.classes)}

UseCaseInScopeByPath(r, f) ==
    /\ Contains(FileStr(r, f), <<"application">>)
    /\ Contains(Lower(FileStr(r, f)), <<"use", "_", "case">>)

\* the scope test of UseCaseStructureValidator.validate_file
UseCaseInScope(r, f) ==
    /\ Contains(FileStr(r, f), <<"application">>)
    /\ Contains(Lower(Stem(f)), <<"use", "_", "case">>)

\* the skip test of UseCaseStructureValidator.validate_file
UseCaseSkips(r, f) == Contains(FileStr(r, f), <<"test">>)

CheckUseCaseInPlace(path, classes, use_case) ==
    LET expected_request == Replace(use_case, "UseCase", <<"Request">>)
        expected_response == Replace(use_case, "UseCase", <<"Response">>)
    IN  (IF expected_request \notin classes
         THEN << <<path, use_case, expected_request>> >> ELSE <<>>)
        \o (IF expected_response \notin classes
            THEN << <<path, use_case, expected_response>> >> ELSE <<>>)

\* the body of the loop of _check_use_case_pattern for one use case class
CheckUseCase(path, classes, use_case) ==
    LET base_name == Replace(use_case, "UseCase", <<>>)
        expected_request == base_name \o <<"Request">>
        expected_response == base_name \o <<"Response">>
    IN  (IF expected_request \notin classes
         THEN << <<path, use_case, expected_request>> >> ELSE <<>>)
        \o (IF expected_response \notin classes
            THEN << <<path, use_case, expected_response>> >> ELSE <<>>)

\* UseCaseStructureValidator._check_use_case_pattern, the use case classes
\* taken in the iteration order of the set
RECURSIVE CheckUseCasePattern(_, _, _)
CheckUseCasePattern(path, classes, order) ==
    IF Len(order) = 0 THEN <<>>
    ELSE (IF Contains(order[1], <<"UseCase">>)
          THEN CheckUseCase(path, classes, order[1]) ELSE <<>>)
         \o CheckUseCasePattern(path, classes, Tail(order))

\* UseCaseStructureValidator.validate_file: the issues one file appends when
\* its set of class names is iterated in the given order
UseCaseValidate(r, f, order) ==
    IF ~UseCaseInScope(r, f) THEN <<>>
    ELSE IF UseCaseSkips(r, f) THEN <<>>
    ELSE IF ~f.parseable THEN <<>>
    ELSE CheckUseCasePattern(FileStr(r, f), GetClassNames(f), order)

(***************************************************************************)
(* The two scripts' main(): the root directory.                            *)
(***************************************************************************)
\* Path.exists() of a root candidate; the current directory always exists
Exists(r, ex) == r = <<".">> \/ r \in ex

\* the choice of root_path at the top of main(): sys.argv[1], else the
\* first of 'src', 'app', '.' that exists
ResolveRoot(args, ex) ==
    IF Len(args) > 0 THEN args[1]
    ELSE IF Exists(<<"src">>, ex) THEN <<"src">>
    ELSE IF Exists(<<"app">>, ex) THEN <<"app">>
    ELSE <<".">>

\* the report() methods print at most this many issues
NamingReportLimit == 10
ReportLimit == 5

\* the number of issue lines a report() prints: issues[:limit]
Printed(issues, limit) == IF Len(issues) > limit THEN limit ELSE Len(issues)

(***************************************************************************)
(* The file trees the scripts are run on.                                  *)
(***************************************************************************)
MaxImports == 2

BoundedSeqs(S, n) == UNION {[1..k -> S] : k \in 0..n}

PyFile(stem) == stem \o <<".", "py">>

SourceFile(dir, stem, ok, imps, cls, funs, asg) ==
    [parts |-> dir \o <<PyFile(stem)>>, parseable |-> ok, imports |-> imps,
     classes |-> cls, functions |-> funs, assigns |-> asg]

\* the modules the files import
ImportPaths ==
    {<<"domain", ".", "entities">>,
     <<"use", "_", "case", "s", ".", "create">>,
     <<"infrastructure", ".", "repo">>,
     <<"framework", "s", ".", "web">>,
     <<"myproject", ".", "infrastructure", ".", "repo">>,
     <<"os", ".", "path">>}

\* the directories of the files the import validator is run on
ImportDirs ==
    {<< <<"domain">> >>, << <<"entities">> >>, << <<"application">> >>,
     << <<"infrastructure">> >>, << <<"adapters">> >>,
     << <<"framework", "s">> >>, << <<"utils">> >>,
     << <<"Domain">> >>,
     << <<"domain">>, <<"infrastructure">> >>,
     << <<"domain">>, <<"controller", "s">> >>,
     << <<"domain">>, <<"test", "s">> >>,
     << <<"domain">>, <<"__pycache__">> >>}

\* the import statements of a file, in source order, each module once
ImportLists ==
    {l \in BoundedSeqs(ImportPaths, MaxImports) :
        \A i, j \in 1..Len(l) : l[i] = l[j] => i = j}

\* the files the import validator is run on: a list of imports each, or a
\* text that does not parse
ImportFiles ==
    {SourceFile(d, <<"task">>, TRUE, l, <<>>, <<>>, <<>>) :
         d \in ImportDirs, l \in ImportLists}
    \cup {SourceFile(d, <<"task">>, FALSE, <<>>, <<>>, <<>>, <<>>) :
              d \in ImportDirs}

\* the files beside the file under study in an import run
ImportNeighbours ==
    {SourceFile(<< <<"application">> >>, <<"task">>, TRUE,
                << <<"infrastructure", ".", "repo">> >>, <<>>, <<>>, <<>>),
     SourceFile(<< <<"domain">> >>, <<"task">>, FALSE,
                <<>>, <<>>, <<>>, <<>>)}

Class(name, bases, decorators, ann_attrs, init_attrs, properties) ==
    [name |-> name, bases |-> bases, decorators |-> decorators,
     ann_attrs |-> ann_attrs, init_attrs |-> init_attrs,
     properties |-> properties]

PlainClass(name) == Class(name, <<>>, <<>>, <<>>, <<>>, <<>>)

\* the class lists of the files the structure validators are run on
TriadClassLists ==
    {<<PlainClass(<<"Delete", "Task", "UseCase">>)>> \o req \o resp :
         req \in {<<>>, <<PlainClass(<<"Delete", "Task", "Request">>)>>},
         resp \in {<<>>, <<PlainClass(<<"Delete", "Task", "Response">>)>>}}
    \cup {<<>>, <<PlainClass(<<"Delete", "Task", "Request">>)>>,
          <<PlainClass(<<"delete", "_", "task">>)>>}
    \cup {<<PlainClass(<<"Create", "UseCase", "V2">>)>>,
          <<PlainClass(<<"Create", "UseCase", "V2">>),
            PlainClass(<<"Create", "Request", "V2">>),
            PlainClass(<<"Create", "Response", "V2">>)>>,
          <<PlainClass(<<"Create", "UseCase", "V2">>),
            PlainClass(<<"Create", "V2", "Request">>),
            PlainClass(<<"Create", "V2", "Response">>)>>}

EntityClassLists ==
    {<<Class(<<"Task">>, bd[1], bd[2], << <<"title">> >>, <<>>, <<>>)>> :
         bd \in {<< <<>>, <<>> >>, << << <<"Protocol">> >>, <<>> >>,
                 << <<>>, << <<"dataclass">> >> >>}}
    \cup {<<Class(<<"Task">>, <<>>, <<>>, a, <<>>, <<>>)>> :
              a \in {<< <<"_", "title">> >>, << <<"MAX">> >>}}
    \cup {<<Class(<<"Task">>, <<>>, <<>>, a, << <<"_", "title">> >>, p)>> :
              a \in {<<>>, << <<"title">> >>},
              p \in {<<>>, << <<"title">> >>}}
    \cup {<<Class(<<"Task">>, <<>>, <<>>, <<>>, <<>>, << <<"title">> >>)>>}

\* the module-level function names and assignment targets of those files
FunctionLists ==
    {<< <<"run">>, <<"Task">>, <<"__", "init", "__">> >>}

AssignLists ==
    {<< <<"MAX", "_", "SIZE">>, <<"_", "MAX", "_", "SIZE">> >>}

StructDirs ==
    {<< <<"domain">> >>, << <<"entities">> >>,
     << <<"application">>, <<"use", "_", "case", "s">> >>,
     << <<"infrastructure">> >>, << <<"framework", "s">> >>,
     << <<"utils">> >>, << <<"domain">>, <<"__pycache__">> >>}

StructStems ==
    {<<"delete", "_", "task">>,
     <<"task", "_", "controller">>,
     <<"test", "_", "controller">>,
     <<"delete", "_", "task", "_", "use", "_", "case">>,
     <<"task", "_", "entity">>}

\* the files the structure validators are run on
StructFiles ==
    {SourceFile(d, s, TRUE, <<>>, c, <<>>, <<>>) :
         d \in StructDirs, s \in StructStems,
         c \in TriadClassLists \cup EntityClassLists}
    \cup {SourceFile(d, s, TRUE, <<>>, <<>>, fn, <<>>) :
              d \in StructDirs, s \in StructStems, fn \in FunctionLists}
    \cup {SourceFile(d, s, TRUE, <<>>, <<>>, <<>>, a) :
              d \in StructDirs, s \in StructStems, a \in AssignLists}
    \cup {SourceFile(d, s, FALSE, <<>>, <<>>, <<>>, <<>>) :
              d \in StructDirs, s \in StructStems}
    \cup {SourceFile(<< <<"domain">> >>,
                     <<"sql", "_", "orm", "_", "http", "_", "api", "_",
                       "router", "_", "controller">>,
                     TRUE, <<>>, <<>>, <<>>, <<>>),
          SourceFile(<< <<"domain">>, <<"controller", "s">> >>,
                     <<"task", "_", "controller">>,
                     TRUE, <<>>, <<>>, <<>>, <<>>)}

\* the files beside the file under study in a structure run
StructNeighbours ==
    {SourceFile(<< <<"domain">> >>, <<"task", "_", "controller">>, TRUE, <<>>,
                <<Class(<<"Task">>, <<>>, <<>>, << <<"title">> >>,
                        <<>>, <<>>)>>, <<>>, <<>>),
     SourceFile(<< <<"application">>, <<"use", "_", "case", "s">> >>,
                <<"delete", "_", "task", "_", "use", "_", "case">>, FALSE,
                <<>>, <<>>, <<>>, <<>>)}

\* s with x inserted after its first i elements
InsertAt(s, i, x) == SubSeq(s, 1, i) \o <<x>> \o SubSeq(s, i + 1, Len(s))

\* no two files of a tree have the same path
DistinctPaths(t) ==
    \A i, j \in 1..Len(t) : t[i].parts = t[j].parts => i = j

\* the trees of at most MaxFiles files: one file under study, drawn from
\* files, among neighbours, in any discovery order
Trees(files, neighbours) ==
    {t \in BoundedSeqs(neighbours, MaxFiles)
           \cup UNION {{InsertAt(ns, i, f) : i \in 0..Len(ns), f \in files} :
                          ns \in BoundedSeqs(neighbours, MaxFiles - 1)} :
        DistinctPaths(t)}

TreesOf(c) ==
    IF c = "imports" THEN Trees(ImportFiles, ImportNeighbours)
    ELSE Trees(StructFiles, StructNeighbours)

(***************************************************************************)
(* The state machine: one run of one script.                               *)
(***************************************************************************)
Init ==
    /\ cmd \in {"imports", "structure"}
    /\ argv \in {<<>>, << <<"domain">> >>, << <<"app">> >>}
    /\ existing = {<<"src">>, <<"domain">>}
    /\ tree \in IF Exists(ResolveRoot(argv, existing), existing)
                THEN TreesOf(cmd) ELSE {<<>>}
    /\ root_path = <<>>
    /\ pc = "main"
    /\ idx = 1
    /\ violations = <<>>
    /\ warnings = <<>>
    /\ structure_issues = <<>>
    /\ naming_issues = <<>>
    /\ encapsulation_issues = <<>>
    /\ content_issues = <<>>
    /\ usecase_issues = <<>>
    /\ printed = <<>>
    /\ valid = [import_valid |-> TRUE, structure_valid |-> TRUE,
                all_valid |-> TRUE]
    /\ exit_code = <<>>

\* main() of validate_imports.py up to the construction of the validators
ImportsMain ==
    /\ pc = "main" /\ cmd = "imports"
    /\ root_path' = ResolveRoot(argv, existing)
    /\ IF ~Exists(root_path', existing)
       THEN /\ exit_code' = <<1>>
            /\ pc' = "done"
       ELSE /\ exit_code' = exit_code
            /\ pc' = "import_files"
    /\ UNCHANGED <<cmd, argv, existing, tree, idx, violations, warnings,
                   structure_issues, naming_issues, encapsulation_issues,
                   content_issues, usecase_issues, printed, valid>>

\* ImportValidator._validate_file on the next file of the loop of validate()
ImportValidateFile ==
    /\ pc = "import_files" /\ idx <= Len(tree)
    /\ LET f == tree[idx]
       IN  IF ImportSkips(root_path, f)
           THEN UNCHANGED <<violations, warnings>>
           ELSE IF ~f.parseable
           THEN /\ warnings' = Append(warnings, FileStr(root_path, f))
                /\ UNCHANGED violations
           ELSE IF Len(GetLayer(f)) = 0
           THEN UNCHANGED <<violations, warnings>>
           ELSE /\ \E order \in Orders(ExtractImports(f)) :
                       violations' =
                           violations \o CheckImports(f, GetLayer(f)[1], order)
                /\ UNCHANGED warnings
    /\ idx' = idx + 1
    /\ UNCHANGED <<cmd, argv, existing, tree, root_path, pc,
                   structure_issues, naming_issues, encapsulation_issues,
                   content_issues, usecase_issues, printed, valid, exit_code>>

\* the end of ImportValidator.validate: the report and the result
ImportReport ==
    /\ pc = "import_files" /\ idx > Len(tree)
    /\ printed' = Append(printed, <<"violations", Len(violations)>>)
    /\ valid' = [valid EXCEPT !.import_valid = (violations = <<>>)]
    /\ pc' = "layer_structure"
    /\ UNCHANGED <<cmd, argv, existing, tree, root_path, idx, violations,
                   warnings, structure_issues, naming_issues,
                   encapsulation_issues, content_issues, usecase_issues,
                   exit_code>>

\* LayerStructureValidator.validate
LayerStructureValidate ==
    /\ pc = "layer_structure"
    /\ structure_issues' = LayerStructureIssues(tree)
    /\ printed' = Append(printed, <<"structure", Len(structure_issues')>>)
    /\ valid' = [valid EXCEPT !.structure_valid = (structure_issues' = <<>>)]
    /\ pc' = "finish"
    /\ UNCHANGED <<cmd, argv, existing, tree, root_path, idx, violations,
                   warnings, naming_issues, encapsulation_issues,
                   content_issues, usecase_issues, exit_code>>

\* the end of main() of validate_imports.py
ImportsExit ==
    /\ pc = "finish" /\ cmd = "imports"
    /\ exit_code' = IF valid.import_valid /\ valid.structure_valid
                    THEN <<0>> ELSE <<1>>
    /\ pc' = "done"
    /\ UNCHANGED <<cmd, argv, existing, tree, root_path, idx, violations,
                   warnings, structure_issues, naming_issues,
                   encapsulation_issues, content_issues, usecase_issues,
                   printed, valid>>

StructureMainNeedsFiles ==
    /\ pc = "main" /\ cmd = "structure"
    /\ root_path' = ResolveRoot(argv, existing)
    /\ IF ~Exists(root_path', existing) \/ tree = <<>>
       THEN /\ exit_code' = <<1>>
            /\ pc' = "done"
       ELSE /\ exit_code' = exit_code
            /\ pc' = "naming"
    /\ UNCHANGED <<cmd, argv, existing, tree, idx, violations, warnings,
                   structure_issues, naming_issues, encapsulation_issues,
                   content_issues, usecase_issues, printed, valid>>

\* main() of validate_structure.py up to the loop over the validators
StructureMain ==
    /\ pc = "main" /\ cmd = "structure"
    /\ root_path' = ResolveRoot(argv, existing)
    /\ IF ~Exists(root_path', existing)
       THEN /\ exit_code' = <<1>>
            /\ pc' = "done"
       ELSE /\ exit_code' = exit_code
            /\ pc' = "naming"
    /\ UNCHANGED <<cmd, argv, existing, tree, idx, violations, warnings,
                   structure_issues, naming_issues, encapsulation_issues,
                   content_issues, usecase_issues, printed, valid>>

ReportKeepsLastResult(name, issues, limit, next) ==
    /\ printed' = Append(printed, <<name, Printed(issues, limit)>>)
    /\ valid' = [valid EXCEPT !.all_valid = (issues = <<>>)]
    /\ pc' = next
    /\ idx' = 1

\* what every report() does to the run: print, and clear all_valid
Report(name, issues, limit, next) ==
    /\ printed' = Append(printed, <<name, Printed(issues, limit)>>)
    /\ valid' = [valid EXCEPT !.all_valid = valid.all_valid /\ issues = <<>>]
    /\ pc' = next
    /\ idx' = 1

NamingValidateFileAborting ==
    /\ pc = "naming" /\ idx <= Len(tree)
    /\ naming_issues' = naming_issues \o NamingValidate(root_path, tree[idx])
    /\ idx' = IF ~NamingSkips(root_path, tree[idx]) /\ ~tree[idx].parseable
              THEN Len(tree) + 1 ELSE idx + 1
    /\ UNCHANGED <<cmd, argv, existing, tree, root_path, pc, violations,
                   warnings, structure_issues, encapsulation_issues,
                   content_issues, usecase_issues, printed, valid, exit_code>>

\* NamingConventionValidator.validate_file on the next file of main's loop
NamingValidateFile ==
    /\ pc = "naming" /\ idx <= Len(tree)
    /\ naming_issues' = naming_issues \o NamingValidate(root_path, tree[idx])
    /\ idx' = idx + 1
    /\ UNCHANGED <<cmd, argv, existing, tree, root_path, pc, violations,
                   warnings, structure_issues, encapsulation_issues,
                   content_issues, usecase_issues, printed, valid, exit_code>>

\* NamingConventionValidator.report and the update of all_valid
NamingReport ==
    /\ pc = "naming" /\ idx > Len(tree)
    /\ Report("naming", naming_issues, NamingReportLimit, "encapsulation")
    /\ UNCHANGED <<cmd, argv, existing, tree, root_path, violations,
                   warnings, structure_issues, naming_issues,
                   encapsulation_issues, content_issues, usecase_issues,
                   exit_code>>

\* EncapsulationValidator.validate_file on the next file of main's loop
EncapsulationValidateFile ==
    /\ pc = "encapsulation" /\ idx <= Len(tree)
    /\ encapsulation_issues' =
           encapsulation_issues \o EncapsulationValidate(root_path, tree[idx])
    /\ idx' = idx + 1
    /\ UNCHANGED <<cmd, argv, existing, tree, root_path, pc, violations,
                   warnings, structure_issues, naming_issues,
                   content_issues, usecase_issues, printed, valid, exit_code>>

\* EncapsulationValidator.report and the update of all_valid
EncapsulationReport ==
    /\ pc = "encapsulation" /\ idx > Len(tree)
    /\ Report("encapsulation", encapsulation_issues, ReportLimit, "content")
    /\ UNCHANGED <<cmd, argv, existing, tree, root_path, violations,
                   warnings, structure_issues, naming_issues,
                   encapsulation_issues, content_issues, usecase_issues,
                   exit_code>>

\* LayerContentValidator.validate_file on the next file of main's loop
LayerContentValidateFile ==
    /\ pc = "content" /\ idx <= Len(tree)
    /\ content_issues' = content_issues \o ContentValidate(root_path, tree[idx])
    /\ idx' = idx + 1
    /\ UNCHANGED <<cmd, argv, existing, tree, root_path, pc, violations,
                   warnings, structure_issues, naming_issues,
                   encapsulation_issues, usecase_issues, printed, valid,
                   exit_code>>

\* LayerContentValidator.report and the update of all_valid
LayerContentReport ==
    /\ pc = "content" /\ idx > Len(tree)
    /\ Report("content", content_issues, ReportLimit, "usecase")
    /\ UNCHANGED <<cmd, argv, existing, tree, root_path, violations,
                   warnings, structure_issues, naming_issues,
                   encapsulation_issues, content_issues, usecase_issues,
                   exit_code>>

\* UseCaseStructureValidator.validate_file on the next file of main's loop
UseCaseValidateFile ==
    /\ pc = "usecase" /\ idx <= Len(tree)
    /\ \E order \in Orders(GetClassNames(tree[idx])) :
           usecase_issues' =
               usecase_issues \o UseCaseValidate(root_path, tree[idx], order)
    /\ idx' = idx + 1
    /\ UNCHANGED <<cmd, argv, existing, tree, root_path, pc, violations,
                   warnings, structure_issues, naming_issues,
                   encapsulation_issues, content_issues, printed, valid,
                   exit_code>>

\* UseCaseStructureValidator.report and the update of all_valid
UseCaseReport ==
    /\ pc = "usecase" /\ idx > Len(tree)
    /\ Report("usecase", usecase_issues, ReportLimit, "finish")
    /\ UNCHANGED <<cmd, argv, existing, tree, root_path, violations,
                   warnings, structure_issues, naming_issues,
                   encapsulation_issues, content_issues, usecase_issues,
                   exit_code>>

\* the end of main() of validate_structure.py
StructureExit ==
    /\ pc = "finish" /\ cmd = "structure"
    /\ exit_code' = IF valid.all_valid THEN <<0>> ELSE <<1>>
    /\ pc' = "done"
    /\ UNCHANGED <<cmd, argv, existing, tree, root_path, idx, violations,
                   warnings, structure_issues, naming_issues,
                   encapsulation_issues, content_issues, usecase_issues,
                   printed, valid>>

Next ==
    \/ ImportsMain
    \/ ImportValidateFile
    \/ ImportReport
    \/ LayerStructureValidate
    \/ ImportsExit
    \/ StructureMain
    \/ NamingValidateFile
    \/ NamingReport
    \/ EncapsulationValidateFile
    \/ EncapsulationReport
    \/ LayerContentValidateFile
    \/ LayerContentReport
    \/ UseCaseValidateFile
    \/ UseCaseReport
    \/ StructureExit

Spec == Init /\ [][Next]_vars

(***************************************************************************)
(* Vocabulary of the properties.                                           *)
(***************************************************************************)
\* the layer vocabulary: the canonical names and their synonyms
Vocabulary == {LAYERS[i][1] : i \in 1..Len(LAYERS)}

\* the canonical name of a rank
CanonicalName(rank) ==
    CASE rank = 0 -> <<"domain">>
      [] rank = 1 -> <<"application">>
      [] rank = 2 -> <<"infrastructure">>
      [] rank = 3 -> <<"framework", "s">>

\* the dotted segments of an import, lower-cased
Segments(imp) == [k \in 1..Len(Split(imp, ".")) |-> Lower(Split(imp, ".")[k])]

\* file i of the tree has been through ImportValidator._validate_file
ImportProcessed(i) ==
    /\ cmd = "imports" /\ pc # "main"
    /\ i \in 1..Len(tree)
    /\ pc = "import_files" => i < idx

\* file i is neither a test file nor a cache file, and it parses
ImportExamined(i) ==
    /\ ~Contains(FileStr(root_path, tree[i]), <<"test">>)
    /\ ~Contains(FileStr(root_path, tree[i]), <<"__pycache__">>)
    /\ tree[i].parseable

\* the number of violations (path, from layer, to layer) in the list
CountViolations(path, from, to) ==
    Cardinality({k \in 1..Len(violations) : violations[k] = <<path, from, to>>})

\* no violation names the path
NoViolationNames(path) ==
    \A k \in 1..Len(violations) : violations[k][1] # path

\* the run of the import validator is over its file loop
ImportLoopDone ==
    cmd = "imports" /\ pc \in {"layer_structure", "finish", "done"}

(***************************************************************************)
(* C1.  Monotonic inward rule: for a file of rank R, each project-internal *)
(* import (one whose first dotted segment is in the vocabulary) of rank R' *)
(* appends one violation (file, R, R') if R' > R and none if R' <= R.      *)
(***************************************************************************)
MonotonicInwardRule ==
    \A i \in 1..Len(tree) :
        (ImportProcessed(i) /\ ImportExamined(i) /\ Len(GetLayer(tree[i])) = 1)
        => LET f == tree[i]
               R == GetLayer(f)[1]
               internal(R2) ==
                   {imp \in Range(f.imports) :
                       /\ Segments(imp)[1] \in Vocabulary
                       /\ LayerIndex(Segments(imp)[1]) = R2}
           IN  \A R2 \in 0..3 :
                   CountViolations(PathStr(f.parts), CanonicalName(R),
                                   CanonicalName(R2))
                       = IF R2 > R THEN Cardinality(internal(R2)) ELSE 0

\* an application file that imports an inner and an outer layer was checked
MonotonicInwardRuleWitness ==
    \E i \in 1..Len(tree) :
        /\ ImportProcessed(i) /\ ImportExamined(i)
        /\ GetLayer(tree[i]) = <<1>>
        /\ tree[i].imports = << <<"domain", ".", "entities">>,
                                <<"infrastructure", ".", "repo">> >>
        /\ CountViolations(PathStr(tree[i].parts), <<"application">>,
                           <<"infrastructure">>) = 1

(***************************************************************************)
(* C2.  As claimed: an import is classified by ANY dotted segment that is  *)
(* in the vocabulary, so every import with such a segment of a rank above  *)
(* the file's adds a violation.                                            *)
(***************************************************************************)
AnySegmentClassifies ==
    \A i \in 1..Len(tree) :
        (ImportProcessed(i) /\ ImportExamined(i) /\ Len(GetLayer(tree[i])) = 1)
        => \A imp \in Range(tree[i].imports) :
               LET matching == {k \in 1..Len(Segments(imp)) :
                                    Segments(imp)[k] \in Vocabulary}
                   first == CHOOSE k \in matching : \A j \in matching : k <= j
               IN  (/\ matching # {}
                    /\ LayerIndex(Segments(imp)[first]) > GetLayer(tree[i])[1])
                   => CountViolations(
                          PathStr(tree[i].parts),
                          CanonicalName(GetLayer(tree[i])[1]),
                          CanonicalName(LayerIndex(Segments(imp)[first]))) >= 1

(***************************************************************************)
(* C2, amended.  An import is classified by its FIRST dotted segment only: *)
(* a file none of whose imports starts with an outer layer's name gets no  *)
(* violation, whatever the later segments are, and a file gets a violation *)
(* for the layer of each import that starts with an outer layer's name.    *)
(***************************************************************************)
FirstSegmentClassifies ==
    \A i \in 1..Len(tree) :
        (ImportProcessed(i) /\ ImportExamined(i) /\ Len(GetLayer(tree[i])) = 1)
        => LET f == tree[i]
               outward == {imp \in Range(f.imports) :
                              /\ Segments(imp)[1] \in Vocabulary
                              /\ LayerIndex(Segments(imp)[1]) > GetLayer(f)[1]}
           IN  /\ outward = {} => NoViolationNames(PathStr(f.parts))
               /\ \A imp \in outward :
                      CountViolations(
                          PathStr(f.parts), CanonicalName(GetLayer(f)[1]),
                          CanonicalName(LayerIndex(Segments(imp)[1]))) >= 1

\* a domain file importing only myproject.infrastructure.repo was checked
FirstSegmentClassifiesWitness ==
    \E i \in 1..Len(tree) :
        /\ ImportProcessed(i) /\ ImportExamined(i)
        /\ GetLayer(tree[i]) = <<0>>
        /\ tree[i].imports =
               << <<"myproject", ".", "infrastructure", ".", "repo">> >>
        /\ NoViolationNames(PathStr(tree[i].parts))

(***************************************************************************)
(* C3.  A file none of whose path segments (relative to the root) is in    *)
(* the vocabulary gets no dependency-rule violation, whatever it imports.  *)
(***************************************************************************)
UnclassifiedFilesClean ==
    \A i \in 1..Len(tree) :
        (/\ ImportProcessed(i)
         /\ \A k \in 1..Len(tree[i].parts) :
                Lower(tree[i].parts[k]) \notin Vocabulary)
        => NoViolationNames(PathStr(tree[i].parts))

\* an unclassified file that imports frameworks.web was checked
UnclassifiedFilesCleanWitness ==
    \E i \in 1..Len(tree) :
        /\ ImportProcessed(i) /\ ImportExamined(i)
        /\ \A k \in 1..Len(tree[i].parts) :
               Lower(tree[i].parts[k]) \notin Vocabulary
        /\ <<"framework", "s", ".", "web">> \in Range(tree[i].imports)

(***************************************************************************)
(* Vocabulary of the properties of the structure validators.               *)
(***************************************************************************)
\* the issues of a list that name the path, without the path
RECURSIVE About(_, _)
About(issues, path) ==
    IF Len(issues) = 0 THEN <<>>
    ELSE (IF issues[1][1] = path THEN <<Tail(issues[1])>> ELSE <<>>)
         \o About(Tail(issues), path)

\* the path by which the import validator names file f, and the path by
\* which the structure validators name it
RelPath(f) == PathStr(f.parts)
FullPath(f) == PathStr(RootParts(root_path) \o f.parts)

\* the path of f contains the test marker or the cache marker
IsTestOrCache(f) ==
    \/ Contains(FullPath(f), <<"test">>)
    \/ Contains(FullPath(f), <<"__pycache__">>)

\* the pairs (canonical segment, synonym segment)
Synonyms ==
    {<< <<"domain">>, <<"entities">> >>,
     << <<"application">>, <<"use", "_", "case", "s">> >>,
     << <<"infrastructure">>, <<"adapters">> >>,
     << <<"framework", "s">>, <<"framework">> >>}

\* f and g differ only in that g has the synonym where f has the canonical
\* segment
SynonymPair(f, g) ==
    /\ [f EXCEPT !.parts = <<>>] = [g EXCEPT !.parts = <<>>]
    /\ Len(f.parts) = Len(g.parts)
    /\ \E k \in 1..Len(f.parts) :
           /\ <<f.parts[k], g.parts[k]>> \in Synonyms
           /\ \A j \in 1..Len(f.parts) : j # k => f.parts[j] = g.parts[j]

(***************************************************************************)
(* C4.  Synonym equivalence: two files of a run that differ only in a      *)
(* synonym segment against the canonical one are classified alike and get  *)
(* the same violations and issues, up to the path, from every checker.     *)
(***************************************************************************)
SynonymEquivalence ==
    pc = "done" =>
        \A i, j \in 1..Len(tree) :
            SynonymPair(tree[i], tree[j])
            => LET f == tree[i]
                   g == tree[j]
               IN  /\ cmd = "imports" => GetLayer(f) = GetLayer(g)
                   /\ cmd = "structure"
                          => ContentGetLayer(root_path, f)
                                 = ContentGetLayer(root_path, g)
                   /\ About(violations, RelPath(f))
                          = About(violations, RelPath(g))
                   /\ About(naming_issues, FullPath(f))
                          = About(naming_issues, FullPath(g))
                   /\ About(encapsulation_issues, FullPath(f))
                          = About(encapsulation_issues, FullPath(g))
                   /\ About(content_issues, FullPath(f))
                          = About(content_issues, FullPath(g))
                   /\ About(usecase_issues, FullPath(f))
                          = About(usecase_issues, FullPath(g))

(***************************************************************************)
(* C5.  After a run, no violation or issue of any checker names a file     *)
(* whose path contains the test marker or the compiled-cache marker.       *)
(***************************************************************************)
SkippedFilesNeverReported ==
    pc = "done" =>
        \A i \in 1..Len(tree) :
            IsTestOrCache(tree[i])
            => /\ About(violations, RelPath(tree[i])) = <<>>
               /\ About(naming_issues, FullPath(tree[i])) = <<>>
               /\ About(encapsulation_issues, FullPath(tree[i])) = <<>>
               /\ About(content_issues, FullPath(tree[i])) = <<>>
               /\ About(usecase_issues, FullPath(tree[i])) = <<>>

\* the violations of the files in discovery order, the imports of each file
\* in the order in which they appear in its source
RECURSIVE ViolationsInSourceOrder(_)
ViolationsInSourceOrder(files) ==
    IF Len(files) = 0 THEN <<>>
    ELSE (IF /\ ~IsTestOrCache(files[1])
             /\ files[1].parseable
             /\ Len(GetLayer(files[1])) = 1
          THEN CheckImports(files[1], GetLayer(files[1])[1], files[1].imports)
          ELSE <<>>)
         \o ViolationsInSourceOrder(Tail(files))

(***************************************************************************)
(* C6.  The violation list is a function of the tree, so that two runs     *)
(* over the same tree give the same list: the files in discovery order     *)
(* and, within a file, its imports in the order in which they appear in    *)
(* the source.                                                             *)
(***************************************************************************)
ViolationOrderStable ==
    ImportLoopDone => violations = ViolationsInSourceOrder(tree)

\* no checker of the running script has a violation or an issue
NothingReported ==
    IF cmd = "imports"
    THEN violations = <<>> /\ structure_issues = <<>>
    ELSE /\ naming_issues = <<>> /\ encapsulation_issues = <<>>
         /\ content_issues = <<>> /\ usecase_issues = <<>>

(***************************************************************************)
(* C7.  The process exits with 0 if and only if the root exists and every  *)
(* checker of the script reported nothing, and with 1 otherwise, also when *)
(* a report was truncated.                                                 *)
(***************************************************************************)
ExitStatus ==
    pc = "done" =>
        /\ exit_code \in {<<0>>, <<1>>}
        /\ exit_code = <<0>>
               <=> ((root_path = <<".">> \/ root_path \in existing)
                    /\ NothingReported)

\* a structure run ended with status 1 after one checker alone had issues,
\* more of them than its report printed
ExitStatusWitness ==
    /\ pc = "done" /\ cmd = "structure"
    /\ naming_issues = <<>> /\ encapsulation_issues = <<>>
    /\ usecase_issues = <<>>
    /\ \E k \in 1..Len(printed) :
           printed[k][1] = "content" /\ printed[k][2] < Len(content_issues)
    /\ exit_code = <<1>>

(***************************************************************************)
(* C8.  Vocabulary: what each checker appends for one file taken alone,    *)
(* which is what a run reports for it in a tree without the other files.   *)
(***************************************************************************)
\* the issues of a list without their paths
Tails(issues) == [k \in 1..Len(issues) |-> Tail(issues[k])]

\* file f is handed to the parser and does not parse
FailsToParse(f) == ~f.parseable /\ ~IsTestOrCache(f)

\* the violations of file f alone, its imports taken in some order
ViolationsAlone(f) ==
    IF IsTestOrCache(f) \/ ~f.parseable \/ Len(GetLayer(f)) = 0 THEN <<>>
    ELSE Tails(CheckImports(f, GetLayer(f)[1],
                            CHOOSE o \in Orders(ExtractImports(f)) : TRUE))

\* the use case issues of file f alone, its classes taken in some order
UseCaseAlone(f) ==
    Tails(UseCaseValidate(root_path, f,
                          CHOOSE o \in Orders(GetClassNames(f)) : TRUE))

\* the paths of the files that fail to parse, in discovery order
RECURSIVE ParseFailures(_)
ParseFailures(files) ==
    IF Len(files) = 0 THEN <<>>
    ELSE (IF FailsToParse(files[1]) THEN <<FullPath(files[1])>> ELSE <<>>)
         \o ParseFailures(Tail(files))

\* every file that parses has the violations and issues it has alone
OtherFilesUnaffected ==
    \A i \in 1..Len(tree) :
        tree[i].parseable
        => LET f == tree[i]
           IN  /\ cmd = "imports"
                    => /\ Range(About(violations, RelPath(f)))
                              = Range(ViolationsAlone(f))
                       /\ Len(About(violations, RelPath(f)))
                              = Len(ViolationsAlone(f))
               /\ cmd = "structure"
                    => /\ About(naming_issues, FullPath(f))
                              = Tails(NamingValidate(root_path, f))
                       /\ About(encapsulation_issues, FullPath(f))
                              = Tails(EncapsulationValidate(root_path, f))
                       /\ About(content_issues, FullPath(f))
                              = Tails(ContentValidate(root_path, f))
                       /\ Range(About(usecase_issues, FullPath(f)))
                              = Range(UseCaseAlone(f))
                       /\ Len(About(usecase_issues, FullPath(f)))
                              = Len(UseCaseAlone(f))

\* no checker that parses files reports anything for a file that fails to
\* parse
ParseFailuresSkipped ==
    \A i \in 1..Len(tree) :
        FailsToParse(tree[i])
        => /\ About(violations, RelPath(tree[i])) = <<>>
           /\ About(naming_issues, FullPath(tree[i])) = <<>>
           /\ About(encapsulation_issues, FullPath(tree[i])) = <<>>
           /\ About(usecase_issues, FullPath(tree[i])) = <<>>

(***************************************************************************)
(* C8.  As claimed: a file that fails to parse is skipped with a printed   *)
(* warning by either script, the run goes on to its end, and the other     *)
(* files have the violations and issues they have without it.              *)
(***************************************************************************)
ParseFailureWarned ==
    pc = "done" =>
        /\ warnings = ParseFailures(tree)
        /\ ParseFailuresSkipped
        /\ OtherFilesUnaffected

(***************************************************************************)
(* C8, amended.  A file that fails to parse is skipped by every checker    *)
(* that parses files, the run goes on to its end, and the other files have *)
(* the violations and issues they have without it; validate_imports.py     *)
(* prints one warning per such file, validate_structure.py prints none.    *)
(***************************************************************************)
ParseFailureRecoverable ==
    pc = "done" =>
        /\ warnings = IF cmd = "imports" THEN ParseFailures(tree) ELSE <<>>
        /\ ParseFailuresSkipped
        /\ OtherFilesUnaffected

\* a structure run ended without a warning although its first file failed
\* to parse, and it reported naming issues for the file after it
ParseFailureRecoverableWitness ==
    /\ pc = "done" /\ cmd = "structure"
    /\ Len(tree) = 2
    /\ FailsToParse(tree[1])
    /\ About(naming_issues, FullPath(tree[2])) # <<>>
    /\ warnings = <<>>

(***************************************************************************)
(* C9.  Vocabulary: the use case classes of a file that lack both          *)
(* companions.                                                             *)
(***************************************************************************)
\* the names X such that the file declares XUseCase, no XRequest, no
\* XResponse and no other class whose name contains 'UseCase'
LoneUseCases(f) ==
    {c \in GetClassNames(f) :
        /\ Len(c) >= 1
        /\ c[Len(c)] = "UseCase"
        /\ ~Contains(SubSeq(c, 1, Len(c) - 1), <<"UseCase">>)
        /\ SubSeq(c, 1, Len(c) - 1) \o <<"Request">> \notin GetClassNames(f)
        /\ SubSeq(c, 1, Len(c) - 1) \o <<"Response">> \notin GetClassNames(f)
        /\ \A d \in GetClassNames(f) :
               Contains(d, <<"UseCase">>) => d = c}

\* exactly two issues for the file: XRequest missing and XResponse missing
TwoTriadIssues(f, c) ==
    /\ Len(About(usecase_issues, FullPath(f))) = 2
    /\ Range(About(usecase_issues, FullPath(f)))
           = {<<c, SubSeq(c, 1, Len(c) - 1) \o <<"Request">> >>,
              <<c, SubSeq(c, 1, Len(c) - 1) \o <<"Response">> >>}

\* f lies at application/use_cases/<name>.py
InUseCasesDirectory(f) ==
    /\ Len(f.parts) = 3
    /\ f.parts[1] = <<"application">>
    /\ f.parts[2] = <<"use", "_", "case", "s">>

(***************************************************************************)
(* C9.  As claimed: a file at application/use_cases/<name>.py that         *)
(* declares XUseCase without XRequest and XResponse gets exactly two       *)
(* triad violations, whatever <name> is.                                   *)
(***************************************************************************)
TriadScenarioByDirectory ==
    (pc = "done" /\ cmd = "structure") =>
        \A i \in 1..Len(tree) :
            (/\ InUseCasesDirectory(tree[i])
             /\ tree[i].parseable
             /\ ~Contains(FullPath(tree[i]), <<"test">>))
            => \A c \in LoneUseCases(tree[i]) : TwoTriadIssues(tree[i], c)

(***************************************************************************)
(* C9, amended.  A parseable file whose path contains 'application' and    *)
(* not 'test' and whose base name contains 'use_case' gets exactly two     *)
(* triad violations when it declares XUseCase without XRequest and         *)
(* XResponse; a file at application/use_cases/ whose base name does not    *)
(* contain 'use_case' gets none.                                           *)
(***************************************************************************)
TriadScenarioByBaseName ==
    (pc = "done" /\ cmd = "structure") =>
        \A i \in 1..Len(tree) :
            LET f == tree[i]
            IN  /\ (/\ Contains(FullPath(f), <<"application">>)
                    /\ Contains(Lower(Stem(f)), <<"use", "_", "case">>)
                    /\ f.parseable
                    /\ ~Contains(FullPath(f), <<"test">>))
                   => \A c \in LoneUseCases(f) : TwoTriadIssues(f, c)
                /\ (/\ InUseCasesDirectory(f)
                    /\ ~Contains(Lower(Stem(f)), <<"use", "_", "case">>))
                   => About(usecase_issues, FullPath(f)) = <<>>

\* application/use_cases/delete_task_use_case.py declaring DeleteTaskUseCase
\* alone got its two violations
TriadScenarioByBaseNameWitness ==
    /\ pc = "done" /\ cmd = "structure"
    /\ \E i \in 1..Len(tree) :
           /\ InUseCasesDirectory(tree[i])
           /\ Stem(tree[i]) = <<"delete", "_", "task", "_", "use", "_", "case">>
           /\ GetClassNames(tree[i]) = {<<"Delete", "Task", "UseCase">>}
           /\ TwoTriadIssues(tree[i], <<"Delete", "Task", "UseCase">>)

(***************************************************************************)
(* C10.  Missing-accessor check: in a parseable, non-test file whose path  *)
(* contains 'domain' or 'application' and the token 'entity', every class  *)
(* whose __init__ assigns an underscore-prefixed attribute and that has no *)
(* @property method gets the issue 'Consider using @property'.             *)
(***************************************************************************)
MissingAccessorFlagged ==
    (pc = "done" /\ cmd = "structure") =>
        \A i \in 1..Len(tree) :
            LET f == tree[i]
            IN  (/\ f.parseable
                 /\ ~Contains(FullPath(f), <<"test">>)
                 /\ \/ Contains(FullPath(f), <<"domain">>)
                    \/ Contains(FullPath(f), <<"application">>)
                 /\ Contains(Lower(FullPath(f)), <<"entity">>))
                => \A k \in 1..Len(f.classes) :
                       (/\ \E a \in 1..Len(f.classes[k].init_attrs) :
                               f.classes[k].init_attrs[a][1] = "_"
                        /\ f.classes[k].properties = <<>>)
                       => <<"property", f.classes[k].name>>
                              \in Range(About(encapsulation_issues,
                                              FullPath(f)))

(***************************************************************************)
(* C11.  The encapsulation checker follows the layer classifier: a file    *)
(* the classifier does not place in the domain or application layer (rank  *)
(* 0 or 1, the synonyms entities and use_cases included) gets no           *)
(* encapsulation issue, and every parseable, non-test file it places there *)
(* is examined, so that it gets the issues of its classes.                 *)
(***************************************************************************)
EncapsulationFollowsClassifier ==
    (pc = "done" /\ cmd = "structure") =>
        \A i \in 1..Len(tree) :
            LET f == tree[i]
                inner == GetLayer(f) \in {<<0>>, <<1>>}
            IN  /\ ~inner => About(encapsulation_issues, FullPath(f)) = <<>>
                /\ (/\ inner
                    /\ f.parseable
                    /\ ~Contains(FullPath(f), <<"test">>))
                   => About(encapsulation_issues, FullPath(f))
                          = Tails(CheckPublicAttributes(FullPath(f), f.classes))

(***************************************************************************)
(* C12.  Vocabulary: the segments of a path that are in the vocabulary.    *)
(***************************************************************************)
\* the positions of the root-relative segments of f that, lower-cased, are
\* in the layer vocabulary
MatchingSegments(f) ==
    {k \in 1..Len(f.parts) : Lower(f.parts[k]) \in Vocabulary}

\* the rank of the first of them
FirstSegmentRank(f) ==
    LayerIndex(Lower(f.parts[CHOOSE k \in MatchingSegments(f) :
                                 \A j \in MatchingSegments(f) : k <= j]))

(***************************************************************************)
(* C12.  The layer of a file is the rank of the first segment of its       *)
(* root-relative path that, lower-cased, is in the layer vocabulary, a     *)
(* synonym giving the rank of its canonical name, and none when no segment *)
(* matches; a later segment never overrides an earlier one, so every       *)
(* violation of the file is reported from the layer of that first segment. *)
(***************************************************************************)
FirstSegmentWins ==
    \A i \in 1..Len(tree) :
        ImportProcessed(i)
        => LET f == tree[i]
           IN  /\ GetLayer(f) = IF MatchingSegments(f) = {} THEN <<>>
                                ELSE <<FirstSegmentRank(f)>>
               /\ \A k \in 1..Len(violations) :
                      violations[k][1] = RelPath(f)
                      => /\ MatchingSegments(f) # {}
                         /\ violations[k][2] = CanonicalName(FirstSegmentRank(f))
               /\ (/\ ImportExamined(i)
                   /\ MatchingSegments(f) # {}
                   /\ FirstSegmentRank(f) < 2
                   /\ <<"infrastructure", ".", "repo">> \in Range(f.imports))
                  => CountViolations(RelPath(f),
                                     CanonicalName(FirstSegmentRank(f)),
                                     <<"infrastructure">>) = 1

\* domain/infrastructure/task.py, which imports infrastructure.repo, was
\* checked as a domain file
FirstSegmentWinsWitness ==
    \E i \in 1..Len(tree) :
        /\ ImportProcessed(i) /\ ImportExamined(i)
        /\ SubSeq(tree[i].parts, 1, 2) = << <<"domain">>, <<"infrastructure">> >>
        /\ GetLayer(tree[i]) = <<0>>
        /\ CountViolations(RelPath(tree[i]), <<"domain">>,
                           <<"infrastructure">>) = 1

(***************************************************************************)
(* C13.  Vocabulary: the root of the run and the reports it printed.       *)
(***************************************************************************)
\* the root path of the run exists
RootExists == root_path = <<".">> \/ root_path \in existing

\* the names of the reports printed so far, in order
ReportsPrinted == [k \in 1..Len(printed) |-> printed[k][1]]

(***************************************************************************)
(* C13.  As claimed: a run whose root exists but holds no source file is   *)
(* fatal, it does not exit with status 0.                                  *)
(***************************************************************************)
NoFilesIsFatal ==
    (pc = "done" /\ RootExists /\ tree = <<>>) => exit_code # <<0>>

(***************************************************************************)
(* C13, amended.  Only a missing root is fatal: the run then exits with    *)
(* status 1 before any checker has run.  A run whose root exists but holds *)
(* no source file runs every checker over the empty list of files, each    *)
(* reports nothing, and the run exits with status 0.                       *)
(***************************************************************************)
NoFilesIsNotFatal ==
    pc = "done" =>
        /\ ~RootExists => exit_code = <<1>> /\ printed = <<>>
        /\ (RootExists /\ tree = <<>>)
           => /\ NothingReported
              /\ ReportsPrinted = IF cmd = "imports"
                                  THEN <<"violations", "structure">>
                                  ELSE <<"naming", "encapsulation",
                                         "content", "usecase">>
              /\ exit_code = <<0>>

\* a structure run over an existing root without files ended with status 0
NoFilesIsNotFatalWitness ==
    /\ pc = "done" /\ cmd = "structure"
    /\ RootExists /\ tree = <<>>
    /\ Len(printed) = 4
    /\ exit_code = <<0>>

(***************************************************************************)
(* C14.  Vocabulary: the imports of a file that are not external.          *)
(***************************************************************************)
\* the imports of f that have a dotted segment in the layer vocabulary
VocabularyImports(f) ==
    {imp \in Range(f.imports) :
        \E k \in 1..Len(Segments(imp)) : Segments(imp)[k] \in Vocabulary}

(***************************************************************************)
(* C14.  External imports never produce violations: an import none of      *)
(* whose dotted segments is in the layer vocabulary adds nothing, so a     *)
(* file has at most one violation per import that has such a segment, and  *)
(* none when all its imports are external.                                 *)
(***************************************************************************)
ExternalImportsIgnored ==
    \A i \in 1..Len(tree) :
        (ImportProcessed(i) /\ Len(GetLayer(tree[i])) = 1)
        => Len(About(violations, RelPath(tree[i])))
               <= Cardinality(VocabularyImports(tree[i]))

\* a domain file importing os.path and infrastructure.repo was checked and
\* has the one violation of its infrastructure import
ExternalImportsIgnoredWitness ==
    \E i \in 1..Len(tree) :
        /\ ImportProcessed(i) /\ ImportExamined(i)
        /\ GetLayer(tree[i]) = <<0>>
        /\ Range(tree[i].imports) = {<<"os", ".", "path">>,
                                     <<"infrastructure", ".", "repo">>}
        /\ About(violations, RelPath(tree[i]))
               = << << <<"domain">>, <<"infrastructure">> >> >>

(***************************************************************************)
(* C15.  Vocabulary: the use case classes of a file and the two ways of    *)
(* naming their companions.                                                *)
(***************************************************************************)
\* the file is one the use case checker examines
TriadChecked(f) ==
    /\ Contains(FullPath(f), <<"application">>)
    /\ Contains(Lower(Stem(f)), <<"use", "_", "case">>)
    /\ ~Contains(FullPath(f), <<"test">>)
    /\ f.parseable

\* the declared classes whose name contains 'UseCase'
UseCaseClasses(f) ==
    {c \in GetClassNames(f) : \E k \in 1..Len(c) : c[k] = "UseCase"}

\* the name with 'UseCase' replaced in place by w
CompanionInPlace(c, w) ==
    [k \in 1..Len(c) |-> IF c[k] = "UseCase" THEN w ELSE c[k]]

\* the name with 'UseCase' removed and w appended
CompanionBySuffix(c, w) ==
    LET Kept(x) == x # "UseCase" IN SelectSeq(c, Kept) \o <<w>>

\* the issues of the file are exactly the given (class, missing name) pairs
TriadIssuesAre(f, missing) ==
    /\ Range(About(usecase_issues, FullPath(f))) = missing
    /\ Len(About(usecase_issues, FullPath(f))) = Cardinality(missing)

(***************************************************************************)
(* C15.  As claimed: the companions of a use case class are named by       *)
(* replacing 'UseCase' in place with 'Request' and with 'Response', and    *)
(* the violations of an examined file are exactly those of these names     *)
(* that the file does not declare.                                         *)
(***************************************************************************)
CompanionNamesInPlace ==
    (pc = "done" /\ cmd = "structure") =>
        \A i \in 1..Len(tree) :
            TriadChecked(tree[i])
            => TriadIssuesAre(tree[i],
                   {p \in {<<c, CompanionInPlace(c, w)>> :
                               c \in UseCaseClasses(tree[i]),
                               w \in {"Request", "Response"}} :
                       p[2] \notin GetClassNames(tree[i])})

(***************************************************************************)
(* C15, amended.  The companions of a use case class are named by removing *)
(* 'UseCase' from its name and appending 'Request' and 'Response', and the *)
(* violations of an examined file are exactly those of these names that    *)
(* the file does not declare.                                              *)
(***************************************************************************)
CompanionNamesBySuffix ==
    (pc = "done" /\ cmd = "structure") =>
        \A i \in 1..Len(tree) :
            TriadChecked(tree[i])
            => TriadIssuesAre(tree[i],
                   {p \in {<<c, CompanionBySuffix(c, w)>> :
                               c \in UseCaseClasses(tree[i]),
                               w \in {"Request", "Response"}} :
                       p[2] \notin GetClassNames(tree[i])})

\* a file declaring CreateUseCaseV2, CreateRequestV2 and CreateResponseV2
\* was reported to miss CreateV2Request and CreateV2Response
CompanionNamesBySuffixWitness ==
    /\ pc = "done" /\ cmd = "structure"
    /\ \E i \in 1..Len(tree) :
           /\ TriadChecked(tree[i])
           /\ GetClassNames(tree[i]) =
                  {<<"Create", "UseCase", "V2">>, <<"Create", "Request", "V2">>,
                   <<"Create", "Response", "V2">>}
           /\ Range(About(usecase_issues, FullPath(tree[i]))) =
                  {<< <<"Create", "UseCase", "V2">>,
                      <<"Create", "V2", "Request">> >>,
                   << <<"Create", "UseCase", "V2">>,
                      <<"Create", "V2", "Response">> >>}

(***************************************************************************)
(* C16.  Vocabulary: the files the layer content checker has been through. *)
(***************************************************************************)
\* file i of the tree has been through LayerContentValidator.validate_file
ContentProcessed(i) ==
    /\ cmd = "structure"
    /\ i \in 1..Len(tree)
    /\ \/ pc \in {"usecase", "finish"}
       \/ pc = "done" /\ printed # <<>>
       \/ pc = "content" /\ i < idx

\* the number of layer content issues of file f for a token and a layer
CountContentIssues(f, token, layer) ==
    Cardinality({k \in 1..Len(About(content_issues, FullPath(f))) :
                    About(content_issues, FullPath(f))[k] = <<token, layer>>})

(***************************************************************************)
(* C16.  Layer content check: a file the checker places in a layer gets    *)
(* exactly one issue for each token of the layer's forbidden list that     *)
(* occurs in its lower-cased base name without extension, each naming the  *)
(* token and the layer, and no other issue; a file of the frameworks layer *)
(* and a file the checker places in no layer get none.                     *)
(***************************************************************************)
LayerContentExact ==
    \A i \in 1..Len(tree) :
        ContentProcessed(i)
        => LET f == tree[i]
               layer == ContentGetLayer(root_path, f)
               issues == About(content_issues, FullPath(f))
               found(l) == {t \in Range(Forbidden(l)) :
                               Contains(Lower(Stem(f)), t)}
           IN  /\ (layer = <<>> \/ layer = << <<"framework", "s">> >>)
                  => issues = <<>>
               /\ layer # <<>>
                  => /\ \A t \in found(layer[1]) :
                            CountContentIssues(f, t, layer[1]) = 1
                     /\ Len(issues) = Cardinality(found(layer[1]))

\* domain/controllers/task_controller.py got its one issue, for 'controller'
LayerContentExactWitness ==
    \E i \in 1..Len(tree) :
        /\ ContentProcessed(i)
        /\ tree[i].parts = << <<"domain">>, <<"controller", "s">>,
                              <<"task", "_", "controller", ".", "py">> >>
        /\ About(content_issues, FullPath(tree[i]))
               = << << <<"controller">>, <<"domain">> >> >>

(***************************************************************************)
(* C17.  The two file classifiers agree: for every root and every file     *)
(* under it that either checker has been through, the layer that           *)
(* LayerContentValidator._get_layer gives the path as handed to it is the  *)
(* canonical name of the rank that ImportValidator._get_layer gives the    *)
(* path relative to the root, or both give none; a layer name in the root  *)
(* path itself changes nothing.                                            *)
(***************************************************************************)
ClassifiersAgree ==
    \A i \in 1..Len(tree) :
        (ImportProcessed(i) \/ ContentProcessed(i))
        => ContentGetLayer(root_path, tree[i])
               = IF GetLayer(tree[i]) = <<>> THEN <<>>
                 ELSE <<CanonicalName(GetLayer(tree[i])[1])>>

====
